---- MODULE Spec2Model ----
(***************************************************************************)
(* The Account Store: the Database class over the embedded users table.    *)
(* JavaScript values are modelled as strings; a Date, a collegeData object *)
(* and their stored text are distinct tokens related by the conversions    *)
(* below.  phoneNumber stands for the five optional TEXT columns           *)
(* (phoneNumber, universityName, universityId, program, yearOfStudy),      *)
(* which every statement of the class treats alike.                        *)
(***************************************************************************)
EXTENDS Integers, Sequences, FiniteSets, TLC

VARIABLES initialized, initPromise, db, attempts, columns, table,
          last, nOps, crashed,
          signup,
          isEditing, profileData, tempData, localStorage, location, event

(* The fields of the store and what lives on its disk. *)
storeVars == <<initialized, initPromise, db, attempts, columns, table,
               last, nOps, crashed>>

(* The state of the Profile component, the browser's local storage, the    *)
(* router's location, and the last handler of the page that ran.            *)
pageVars == <<isEditing, profileData, tempData, localStorage, location, event>>

vars == <<storeVars, signup, pageVars>>

(* ------------------------------ bounds --------------------------------- *)
NumCallers == 2
MaxOps == 3
MaxAttempts == 2

(* ------------------------- JavaScript values --------------------------- *)
Undefined == "undefined"
Null == "null"
JsTrue == "true"
JsFalse == "false"
Int0 == "int:0"
Int1 == "int:1"
InvalidDate == "Invalid Date"

D1 == "Date#1"
D2 == "Date#2"
D3 == "Date#3"
Dates == {D1, D2, D3}

CD1 == "CD#advisor+gpa"
CD2 == "CD#plain"
CollegeDatas == {CD1, CD2}

Ids == {"u1", "u2"}
Emails == {"a@uni.edu", "b@uni.edu"}

Keys == {"id", "fullName", "universityEmail", "password", "phoneNumber",
         "isEmailVerified", "verificationToken", "verificationTokenExpiry",
         "collegeData", "createdAt"}

BaseCols == {"id", "fullName", "universityEmail", "password", "phoneNumber",
             "createdAt"}
MigCols == <<"isEmailVerified", "verificationToken",
             "verificationTokenExpiry", "collegeData">>
MigColSet == {MigCols[i] : i \in 1..Len(MigCols)}

(* Date.prototype.toISOString *)
ToISOString(d) ==
    CASE d = D1 -> "2024-01-01T00:00:00.000Z"
      [] d = D2 -> "2025-06-15T12:30:00.000Z"
      [] d = D3 -> "2026-03-01T09:00:00.000Z"
      [] OTHER -> "RangeError"

(* Date.prototype.valueOf, as the driver binds a Date parameter *)
DateNumber(d) ==
    CASE d = D1 -> "num:1704067200000"
      [] d = D2 -> "num:1749990600000"
      [] d = D3 -> "num:1772355600000"
      [] OTHER -> "num:NaN"

(* new Date(v) for a stored column value *)
NewDate(v) ==
    CASE v = "2024-01-01T00:00:00.000Z" -> D1
      [] v = "2025-06-15T12:30:00.000Z" -> D2
      [] v = "num:1704067200000" -> D1
      [] v = "num:1749990600000" -> D2
      [] v = "2026-03-01T09:00:00.000Z" -> D3
      [] v = "num:1772355600000" -> D3
      [] v = Null -> "Date#epoch"
      [] OTHER -> InvalidDate

JSONStringify(o) ==
    CASE o = CD1 -> "{\"department\":\"CS\",\"courses\":[\"OS\",\"DB\"],\"academicYear\":\"2024\",\"semester\":\"5\",\"advisor\":\"Rao\",\"gpa\":8.5}"
      [] o = CD2 -> "{\"department\":\"EE\",\"courses\":[],\"academicYear\":\"2025\",\"semester\":\"1\"}"
      [] OTHER -> Undefined

JSONParse(s) ==
    CASE s = "{\"department\":\"CS\",\"courses\":[\"OS\",\"DB\"],\"academicYear\":\"2024\",\"semester\":\"5\",\"advisor\":\"Rao\",\"gpa\":8.5}" -> CD1
      [] s = "{\"department\":\"EE\",\"courses\":[],\"academicYear\":\"2025\",\"semester\":\"1\"}" -> CD2
      [] OTHER -> "SyntaxError"

(* JavaScript truthiness of a value *)
Truthy(v) == v \notin {Undefined, Null, "", JsFalse, Int0, "num:NaN"}

(* Boolean(v) *)
Boolean(v) == IF Truthy(v) THEN JsTrue ELSE JsFalse

(* How the sqlite3 driver binds one positional parameter: undefined leaves *)
(* the parameter unbound (NULL), booleans become integers, a Date becomes   *)
(* its number of milliseconds.                                              *)
Bind(v) ==
    CASE v = Undefined -> Null
      [] v = JsTrue -> Int1
      [] v = JsFalse -> Int0
      [] v \in Dates -> DateNumber(v)
      [] OTHER -> v

(* ------------------------------ state ---------------------------------- *)
(* initialized, initPromise, db: the three fields of Database (lines 35-37); *)
(* initPromise is 0 for null, else the index in attempts of the             *)
(* _doInitialize call whose promise it holds.  attempts: one record per     *)
(* _doInitialize call: its position, the ALTER it is at, why it rejected,   *)
(* the kinds of ALTER outcome it met, and the number of operations          *)
(* suspended on its promise.  columns: the columns of the users table on    *)
(* disk ({}: no table).  table: its rows in scan order.  last: the last     *)
(* operation that completed, with its arguments and result.                 *)
NoUser == [k \in Keys |-> Undefined]
NoUpdates == [k \in {} |-> Undefined]

NoLast == [op |-> "none", out |-> "none", id |-> "",
           user |-> NoUser, updates |-> NoUpdates, fields |-> {},
           found |-> FALSE, ret |-> NoUser, flag |-> FALSE, list |-> <<>>]

NewAttempt == [pc |-> "dir", k |-> 1, err |-> "none", seen |-> {},
               waiters |-> 1]

(* The database file found on disk: no users table yet, or a users table   *)
(* left by an earlier revision with any subset of the later columns.       *)
DiskSchemas == {{}} \cup {BaseCols \cup s : s \in SUBSET MigColSet}

(* Nobody is signing up. *)
NoSignup == <<>>

(* Lines 20-57 of Profile.tsx: defaultProfileData (two of its fields). *)
defaultProfileData ==
    [fullName |-> "Aanya Sharma", aboutMe |-> "Hi! I'm Aanya"]

(* getItem's answer for an item that is not stored. *)
NoItem == "<null>"

StorageKeys == {"authToken", "userData", "profileData", "tempSignupData",
                "signupFormData"}

(* The Profile page is not shown: its component state does not exist (it    *)
(* is what useState will start from, lines 59-62) and the storage is empty. *)
PageUnmounted ==
    /\ isEditing = FALSE
    /\ profileData = defaultProfileData
    /\ tempData = defaultProfileData
    /\ localStorage = [k \in StorageKeys |-> NoItem]
    /\ location = "/"
    /\ event = "none"

Init ==
    /\ initialized = FALSE
    /\ initPromise = 0
    /\ db = "undefined"
    /\ attempts = <<>>
    /\ columns \in DiskSchemas
    /\ table = <<>>
    /\ last = NoLast
    /\ nOps = 0
    /\ crashed = FALSE
    /\ signup = NoSignup
    /\ PageUnmounted

AttemptIdx == 1..Len(attempts)

(* ------------------------ initializeDatabase --------------------------- *)
(* Mutation: the in-flight promise is not consulted. *)
InitializeDatabaseNoMemo(isInit, promise) ==
    IF isInit THEN "return" ELSE "start"

(* Mutation: every call starts _doInitialize again. *)
InitializeDatabaseRestart(isInit, promise) == "start"

(* Lines 51-54: which way initializeDatabase goes. *)
InitializeDatabaseBranch(isInit, promise) ==
    IF isInit THEN "return"
    ELSE IF promise # 0 THEN "join"
    ELSE "start"

(* Mutation: a rejected initialization promise lets the caller go on. *)
AwaitOutcomeSwallow(attPc) ==
    CASE attPc \in {"fulfilled", "rejected"} -> "continue"
      [] OTHER -> "wait"

(* What `await this.initPromise` does for a caller, by the promise state. *)
AwaitOutcome(attPc) ==
    CASE attPc = "fulfilled" -> "continue"
      [] attPc = "rejected" -> "throw"
      [] OTHER -> "wait"

(* Operations suspended on a promise that has settled: their continuations  *)
(* are microtasks, which run before any new invocation reaches the store.   *)
Continuing == {a \in AttemptIdx : attempts[a].waiters > 0
                                  /\ AwaitOutcome(attempts[a].pc) = "continue"}
Throwing == {a \in AttemptIdx : attempts[a].waiters > 0
                                /\ AwaitOutcome(attempts[a].pc) = "throw"}

RECURSIVE SumWaiters(_)
SumWaiters(n) == IF n = 0 THEN 0 ELSE attempts[n].waiters + SumWaiters(n - 1)
InFlight == SumWaiters(Len(attempts))

(* The first line of every data operation, await this.initializeDatabase(), *)
(* on a store that is not initialized: the operation starts _doInitialize   *)
(* or joins the attempt in flight, and suspends.  _doInitialize runs        *)
(* synchronously up to its first await, so the test of initPromise and its  *)
(* assignment are one step.                                                 *)
Call ==
    /\ ~crashed
    /\ Continuing = {} /\ Throwing = {}
    /\ InFlight < NumCallers
    /\ LET b == InitializeDatabaseBranch(initialized, initPromise) IN
       \/ /\ b = "join"
          /\ attempts' = [attempts EXCEPT ![initPromise].waiters = @ + 1]
          /\ initPromise' = initPromise
       \/ /\ b = "start"
          /\ Len(attempts) < MaxAttempts
          /\ attempts' = Append(attempts, NewAttempt)
          /\ initPromise' = Len(attempts) + 1
    /\ UNCHANGED <<signup, pageVars, initialized, db, columns, table, last, nOps, crashed>>

(* The catch block of _doInitialize (lines 111-114): the promise rejects. *)
Rejected(att, cause) == [att EXCEPT !.pc = "rejected", !.err = cause]

(* Line 60: ensureDataDirectory (existsSync / mkdirSync may throw). *)
InitDir(a) ==
    /\ ~crashed
    /\ attempts[a].pc = "dir"
    /\ \E ok \in BOOLEAN :
         attempts' = [attempts EXCEPT ![a] =
             IF ok THEN [@ EXCEPT !.pc = "import"] ELSE Rejected(@, "dir")]
    /\ UNCHANGED <<signup, pageVars, initialized, initPromise, db, columns, table, last, nOps,
                   crashed>>

(* Lines 62-70: import('sqlite3'), then new Database(DB_PATH, cb) starts   *)
(* opening the file in the background and the CREATE TABLE is queued.       *)
InitImport(a) ==
    /\ ~crashed
    /\ attempts[a].pc = "import"
    /\ \E ok \in BOOLEAN :
         IF ok
         THEN /\ attempts' = [attempts EXCEPT ![a].pc = "open"]
              /\ db' = "opening"
         ELSE /\ attempts' = [attempts EXCEPT ![a] = Rejected(@, "import")]
              /\ db' = db
    /\ UNCHANGED <<signup, pageVars, initialized, initPromise, columns, table, last, nOps,
                   crashed>>

(* Lines 63-68: the open completes.  On an error the callback throws, but   *)
(* it runs outside the try block of _doInitialize: the exception is         *)
(* uncaught (the process dies unless a handler is installed) and the queued *)
(* CREATE TABLE is never run, so the attempt's promise never settles.       *)
InitOpen(a) ==
    /\ ~crashed
    /\ attempts[a].pc = "open"
    /\ \/ /\ attempts' = [attempts EXCEPT ![a].pc = "create"]
          /\ db' = IF db = "opening_close" THEN "open_close" ELSE "open"
          /\ crashed' = crashed
       \/ /\ attempts' = [attempts EXCEPT ![a].pc = "hung", ![a].err = "open"]
          /\ db' = "openFailed"
          /\ crashed' \in BOOLEAN
    /\ UNCHANGED <<signup, pageVars, initialized, initPromise, columns, table, last, nOps>>

(* Lines 73-90: CREATE TABLE IF NOT EXISTS users (...). *)
InitCreate(a) ==
    /\ ~crashed
    /\ attempts[a].pc = "create"
    /\ db \in {"open", "open_close"}
    /\ \E ok \in BOOLEAN :
         IF ok
         THEN /\ attempts' = [attempts EXCEPT ![a].pc = "alter"]
              /\ columns' = IF columns = {} THEN BaseCols \cup MigColSet
                            ELSE columns
         ELSE /\ attempts' = [attempts EXCEPT ![a] = Rejected(@, "create")]
              /\ columns' = columns
    /\ db' = IF db = "open_close" THEN "closed" ELSE db
    /\ UNCHANGED <<signup, pageVars, initialized, initPromise, table, last, nOps, crashed>>

(* Mutation: no try/catch around the ALTER statements. *)
AlterErrorSurfacesAll(kind) == kind \in {"dup", "other"}

(* Lines 93-107: every catch block around an ALTER is empty and catches    *)
(* every error, whatever its reason.                                        *)
AlterErrorSurfaces(kind) == FALSE

(* The outcomes the engine can give ALTER TABLE users ADD COLUMN col: the   *)
(* column is added, it exists already, or the statement fails for another   *)
(* reason (closed handle, read-only or failing disk).                       *)
AlterOutcomes(col) ==
    IF db = "closed" THEN {"other"}
    ELSE IF col \in columns THEN {"dup"}
    ELSE {"ok", "other"}

(* Lines 92-110: the four additive column operations, then initialized. *)
InitAlter(a) ==
    /\ ~crashed
    /\ attempts[a].pc = "alter"
    /\ LET k == attempts[a].k
           col == MigCols[k]
       IN \E o \in AlterOutcomes(col) :
            /\ columns' = IF o = "ok" THEN columns \cup {col} ELSE columns
            /\ LET att == [attempts[a] EXCEPT !.seen = @ \cup {o}]
               IN IF o # "ok" /\ AlterErrorSurfaces(o)
                  THEN /\ attempts' = [attempts EXCEPT ![a] = Rejected(att, "alter")]
                       /\ initialized' = initialized
                  ELSE IF k < Len(MigCols)
                  THEN /\ attempts' = [attempts EXCEPT ![a] = [att EXCEPT !.k = k + 1]]
                       /\ initialized' = initialized
                  ELSE /\ attempts' = [attempts EXCEPT ![a] = [att EXCEPT !.pc = "fulfilled"]]
                       /\ initialized' = TRUE
    /\ UNCHANGED <<signup, pageVars, initPromise, db, table, last, nOps, crashed>>

(* An operation suspended on a rejected initialization promise throws the   *)
(* initialization error to its caller.                                      *)
InitErrorThrown(a) ==
    /\ ~crashed
    /\ a \in Throwing
    /\ attempts' = [attempts EXCEPT ![a].waiters = @ - 1]
    /\ last' = [NoLast EXCEPT !.op = "any", !.out = "initError"]
    /\ UNCHANGED <<signup, pageVars, initialized, initPromise, db, columns, table, nOps, crashed>>

(* Mutation: close() calls this.db.close() without testing this.db. *)
ClosesHandleAlways(d) == TRUE

(* Line 235: if (this.db) *)
ClosesHandle(d) == d # "undefined"

(* Lines 234-238: close().  A close issued while statements are queued      *)
(* takes effect after them; calling close on an undefined handle would      *)
(* throw a TypeError.                                                       *)
Close ==
    /\ ~crashed
    /\ Continuing = {} /\ Throwing = {}
    /\ db \in {"undefined", "opening", "open"}
    /\ db' = CASE db = "undefined" -> "undefined"
               [] db = "opening" -> "opening_close"
               [] db = "open" ->
                    IF \E a \in AttemptIdx : attempts[a].pc = "create"
                    THEN "open_close" ELSE "closed"
    /\ last' = [NoLast EXCEPT !.op = "close",
                              !.out = IF ClosesHandle(db) /\ db = "undefined"
                                      THEN "typeError" ELSE "ok"]
    /\ UNCHANGED <<signup, pageVars, initialized, initPromise, attempts, columns, table,
                   nOps, crashed>>

(* --------------------------- the users table --------------------------- *)
RowIdx(t) == 1..Len(t)

(* The constraints of the CREATE TABLE statement (lines 74-89): id is the   *)
(* primary key, universityEmail is UNIQUE, three columns are NOT NULL.      *)
PrimaryKeyOk(t) ==
    \A i, j \in RowIdx(t) : i # j => t[i].id # t[j].id

(* Mutation: UNIQUE is declared on the pair (universityEmail, id). *)
UniqueEmailAndIdOk(t) ==
    \A i, j \in RowIdx(t) :
        i # j => ~(t[i].universityEmail = t[j].universityEmail /\ t[i].id = t[j].id)

UniqueEmailOk(t) ==
    \A i, j \in RowIdx(t) : i # j => t[i].universityEmail # t[j].universityEmail

NotNullOk(t) ==
    \A i \in RowIdx(t) :
        /\ t[i].fullName # Null
        /\ t[i].universityEmail # Null
        /\ t[i].password # Null

(* Mutation: the universityEmail column is declared without UNIQUE. *)
ConstraintsOkNoUnique(t) == PrimaryKeyOk(t) /\ NotNullOk(t)

(* Mutation: the id column is declared without PRIMARY KEY. *)
ConstraintsOkNoPrimaryKey(t) == UniqueEmailOk(t) /\ NotNullOk(t)

ConstraintsOk(t) == PrimaryKeyOk(t) /\ UniqueEmailOk(t) /\ NotNullOk(t)

(* A statement reaches the engine only through an open handle. *)
HandleUsable == db = "open"

(* ------------------------------- addUser ------------------------------- *)
Users ==
    {[id |-> "u1", fullName |-> "Ann", universityEmail |-> e, password |-> "pw1",
      phoneNumber |-> Undefined, isEmailVerified |-> JsTrue,
      verificationToken |-> Undefined, verificationTokenExpiry |-> Undefined,
      collegeData |-> Undefined, createdAt |-> D1] : e \in Emails}
    \cup
    {[id |-> "u2", fullName |-> "Zo<U+00EB>", universityEmail |-> e, password |-> "pw2",
      phoneNumber |-> "555-0100", isEmailVerified |-> JsFalse,
      verificationToken |-> "tok1", verificationTokenExpiry |-> D2,
      collegeData |-> CD1, createdAt |-> D2] : e \in Emails}

(* Lines 127-135: the parameter list of the INSERT, as bound by the driver. *)
InsertRow(user) ==
    [id |-> Bind(user.id),
     fullName |-> Bind(user.fullName),
     universityEmail |-> Bind(user.universityEmail),
     password |-> Bind(user.password),
     phoneNumber |-> Bind(user.phoneNumber),
     isEmailVerified |-> Bind(user.isEmailVerified),
     verificationToken |-> Bind(user.verificationToken),
     verificationTokenExpiry |->
         Bind(IF user.verificationTokenExpiry \in {Undefined, Null} THEN Undefined
              ELSE ToISOString(user.verificationTokenExpiry)),
     collegeData |->
         Bind(IF Truthy(user.collegeData) THEN JSONStringify(user.collegeData)
              ELSE Null),
     createdAt |-> Bind(ToISOString(user.createdAt))]

(* Lines 224-232: rowToUser. *)
RowToUser(row) ==
    [row EXCEPT
        !.createdAt = NewDate(row.createdAt),
        !.isEmailVerified = Boolean(row.isEmailVerified),
        !.verificationTokenExpiry =
            IF Truthy(row.verificationTokenExpiry)
            THEN NewDate(row.verificationTokenExpiry) ELSE Undefined,
        !.collegeData =
            IF Truthy(row.collegeData)
            THEN JSONParse(row.collegeData) ELSE Undefined]

(* Mutation: a read clears the verification tokens it scanned. *)
SelectedAndConsumed(t) ==
    [i \in RowIdx(t) |-> [t[i] EXCEPT !.verificationToken = Null]]

(* Lines 141, 153, 161, 200, 210: the reads run SELECT statements only,    *)
(* which write nothing.                                                     *)
Selected(t) == t

(* The first row, in scan order, among those a SELECT ... WHERE matches     *)
(* (db.get); 0 when no row matches.                                         *)
FirstMatch(hits) ==
    IF hits = {} THEN 0
    ELSE CHOOSE i \in hits : \A j \in hits : i <= j

(* An operation gets past its first line when the promise it was suspended *)
(* on fulfils, or at once when the store is initialized already.            *)
(* Mutation: a lookup that finds no row raises an error. *)
LookupOutThrows(usable, i) ==
    IF ~usable THEN "sqlError" ELSE IF i = 0 THEN "notFound" ELSE "ok"

(* Lines 147, 155, 166: return row ? this.rowToUser(row) : undefined. A    *)
(* lookup fails only when its statement does.                               *)
LookupOut(usable, i) == IF ~usable THEN "sqlError" ELSE "ok"

CanRun ==
    /\ ~crashed
    /\ nOps < MaxOps
    /\ \/ Continuing # {}
       \/ /\ Throwing = {}
          /\ InitializeDatabaseBranch(initialized, initPromise) = "return"

Finish ==
    /\ attempts' = IF Continuing # {}
                   THEN LET a == CHOOSE x \in Continuing : TRUE
                        IN [attempts EXCEPT ![a].waiters = @ - 1]
                   ELSE attempts
    /\ nOps' = nOps + 1
    /\ UNCHANGED <<signup, pageVars, initialized, initPromise, db, columns, crashed>>

(* Mutation: the statement is INSERT OR REPLACE, which deletes the rows the *)
(* new one conflicts with.                                                  *)
InsertedOrReplace(t, row) ==
    Append(SelectSeq(t, LAMBDA r : r.id # row.id
                                   /\ r.universityEmail # row.universityEmail),
           row)

(* Line 120: INSERT INTO users (...) VALUES (...) adds one row. *)
Inserted(t, row) == Append(t, row)

(* Lines 117-136: addUser. *)
AddUser(user) ==
    /\ CanRun
    /\ LET t2 == Inserted(table, InsertRow(user))
           out == IF ~HandleUsable \/ ~(Keys \subseteq columns) THEN "sqlError"
                  ELSE IF ~ConstraintsOk(t2) THEN "constraint"
                  ELSE "ok"
       IN /\ table' = IF out = "ok" THEN t2 ELSE table
          /\ last' = [NoLast EXCEPT !.op = "addUser",
                                    !.out = out, !.user = user, !.id = user.id]
    /\ Finish

(* Lines 150-156: findUserById. *)
FindUserById(id) ==
    /\ CanRun
    /\ LET i == FirstMatch({j \in RowIdx(table) : table[j].id = id})
           out == LookupOut(HandleUsable, i)
       IN last' = [NoLast EXCEPT !.op = "findUserById",
                                 !.out = out, !.id = id,
                                 !.found = (out = "ok" /\ i # 0),
                                 !.ret = IF out = "ok" /\ i # 0
                                         THEN RowToUser(table[i]) ELSE NoUser]
    /\ table' = Selected(table)
    /\ Finish

(* Lines 197-206: emailExists. *)
CountEmail(t, email) ==
    Cardinality({i \in RowIdx(t) : t[i].universityEmail = email})

(* Mutation: the count is compared with 1 instead of 0. *)
EmailExistsResultOffByOne(t, email) == CountEmail(t, email) > 1

(* Line 205: return row.count > 0 *)
EmailExistsResult(t, email) == CountEmail(t, email) > 0

EmailExists(email) ==
    /\ CanRun
    /\ LET out == IF ~HandleUsable THEN "sqlError" ELSE "ok"
       IN last' = [NoLast EXCEPT !.op = "emailExists",
                                 !.out = out, !.id = email,
                                 !.flag = (out = "ok" /\ EmailExistsResult(table, email))]
    /\ table' = Selected(table)
    /\ Finish

(* Mutation: the statement deletes the unverified records only. *)
DeleteUnverified(t) == SelectSeq(t, LAMBDA r : r.isEmailVerified = Int1)

(* Line 218: DELETE FROM users *)
DeleteFromUsers(t) == <<>>

(* Lines 216-222: clearAllUsers. *)
ClearAllUsers ==
    /\ CanRun
    /\ LET out == IF ~HandleUsable THEN "sqlError" ELSE "ok"
       IN /\ table' = IF out = "ok" THEN DeleteFromUsers(table) ELSE table
          /\ last' = [NoLast EXCEPT !.op = "clearAllUsers",
                                    !.out = out]
    /\ Finish

(* ------------------------------ updateUser ----------------------------- *)
(* The partial updates tried: every one-field update over the values below, *)
(* the empty update, and the verification flow's two-field update.          *)
UpdateValues(k) ==
    CASE k = "id" -> Ids
      [] k = "universityEmail" -> Emails
      [] k = "isEmailVerified" -> {JsTrue, Undefined}
      [] k = "verificationToken" -> {"tok2", Undefined}
      [] k = "verificationTokenExpiry" -> {D1, Undefined}
      [] k = "collegeData" -> {CD2, Undefined}
      [] k = "phoneNumber" -> {"555-0199", Undefined}
      [] k = "createdAt" -> {D3}
      [] OTHER -> {}

UpdateInputs ==
    UNION {[{k} -> UpdateValues(k)] : k \in Keys}
    \cup {NoUpdates}
    \cup {[isEmailVerified |-> JsTrue, verificationToken |-> Undefined]}

(* Mutation: every entry of the partial update is written. *)
AppliedAll(k, v) == TRUE

(* Lines 177-186: does the loop push a "key = ?" for this entry. *)
Applied(k, v) ==
    \/ k = "collegeData" /\ Truthy(v)
    \/ k = "verificationTokenExpiry" /\ Truthy(v)
    \/ v # Undefined

(* Lines 177-186: the value pushed for an applied entry. *)
(* Mutation: collegeData is written as it is, not as JSON text. *)
PushedValueRaw(k, v) ==
    IF k = "verificationTokenExpiry" /\ Truthy(v) THEN ToISOString(v)
    ELSE v

PushedValue(k, v) ==
    IF k = "collegeData" /\ Truthy(v) THEN JSONStringify(v)
    ELSE IF k = "verificationTokenExpiry" /\ Truthy(v) THEN ToISOString(v)
    ELSE v

UpdateFields(updates) == {k \in DOMAIN updates : Applied(k, updates[k])}

(* Mutation: the statement rewrites the whole row, blanking what was omitted. *)
UpdatedRowReplace(row, updates) ==
    [k \in Keys |->
        IF k \in UpdateFields(updates) THEN Bind(PushedValue(k, updates[k]))
        ELSE IF k \in {"id", "fullName", "universityEmail", "password"} THEN row[k]
        ELSE Null]

(* UPDATE users SET f1 = ?, ... : the row after the SET clause. *)
UpdatedRow(row, updates) ==
    [k \in Keys |->
        IF k \in UpdateFields(updates) THEN Bind(PushedValue(k, updates[k]))
        ELSE row[k]]

(* Mutation: the UPDATE has no WHERE clause. *)
UpdateMatchesAll(row, id) == TRUE

(* Line 192: WHERE id = ? *)
UpdateMatches(row, id) == row.id = id

(* Mutation: the UPDATE is run whatever the number of assignments. *)
RunsUpdateAlways(fields) == TRUE

(* Line 188: if (fields.length > 0) *)
RunsUpdate(fields) == fields # {}

(* Lines 169-195: updateUser.  An UPDATE with an empty SET clause would be  *)
(* a syntax error.                                                          *)
UpdateUser(id, updates) ==
    /\ CanRun
    /\ LET fields == UpdateFields(updates)
           t2 == [i \in RowIdx(table) |->
                     IF UpdateMatches(table[i], id)
                     THEN UpdatedRow(table[i], updates) ELSE table[i]]
           out == IF ~RunsUpdate(fields) THEN "noop"
                  ELSE IF ~HandleUsable \/ fields = {} \/ ~(fields \subseteq columns)
                  THEN "sqlError"
                  ELSE IF ~ConstraintsOk(t2) THEN "constraint"
                  ELSE "ok"
       IN /\ table' = IF out = "ok" THEN t2 ELSE table
          /\ last' = [NoLast EXCEPT !.op = "updateUser",
                                    !.out = out, !.id = id,
                                    !.updates = updates, !.fields = fields]
    /\ Finish

(* ----------------------------- other reads ----------------------------- *)
(* The engine's LOWER(): it folds the ASCII letters only, so the two        *)
(* spellings of a name with a letter outside ASCII (U+00EB, U+00CB) stay   *)
(* different.                                                               *)
Lower(s) ==
    CASE s \in {"Ann", "ANN", "ann"} -> "ann"
      [] s \in {"Zo<U+00EB>", "zo<U+00EB>"} -> "zo<U+00EB>"
      [] s \in {"ZO<U+00CB>", "zo<U+00CB>"} -> "zo<U+00CB>"
      [] OTHER -> s

FindUserQueries == Emails \cup {"ANN", "ZO<U+00CB>"}

(* Line 144: WHERE universityEmail = ? OR LOWER(fullName) = LOWER(?) *)
FindUserMatches(row, emailOrUsername) ==
    \/ row.universityEmail = emailOrUsername
    \/ Lower(row.fullName) = Lower(emailOrUsername)

Tokens == {"tok1", "tok2"}

(* Mutation: a token whose record has no expiry stored does not match. *)
TokenMatchesUnexpired(row, token) ==
    row.verificationToken = token /\ row.verificationTokenExpiry # Null

(* Line 163: WHERE verificationToken = ? *)
TokenMatches(row, token) == row.verificationToken = token

(* Lines 138-148: findUser. *)
FindUser(emailOrUsername) ==
    /\ CanRun
    /\ LET i == FirstMatch({j \in RowIdx(table) :
                                FindUserMatches(table[j], emailOrUsername)})
           out == LookupOut(HandleUsable, i)
       IN last' = [NoLast EXCEPT !.op = "findUser",
                                 !.out = out, !.id = emailOrUsername,
                                 !.found = (out = "ok" /\ i # 0),
                                 !.ret = IF out = "ok" /\ i # 0
                                         THEN RowToUser(table[i]) ELSE NoUser]
    /\ table' = Selected(table)
    /\ Finish

(* Lines 158-167: findUserByVerificationToken. *)
FindUserByVerificationToken(token) ==
    /\ CanRun
    /\ LET i == FirstMatch({j \in RowIdx(table) : TokenMatches(table[j], token)})
           out == LookupOut(HandleUsable /\ "verificationToken" \in columns, i)
       IN last' = [NoLast EXCEPT !.op = "findUserByVerificationToken",
                                 !.out = out, !.id = token,
                                 !.found = (out = "ok" /\ i # 0),
                                 !.ret = IF out = "ok" /\ i # 0
                                         THEN RowToUser(table[i]) ELSE NoUser]
    /\ table' = Selected(table)
    /\ Finish

(* The engine's ORDER BY rank of a stored createdAt: NULL, then numbers,    *)
(* then text compared byte by byte.                                         *)
SortRank(v) ==
    CASE v = Null -> 0
      [] v = "num:1704067200000" -> 1
      [] v = "num:1749990600000" -> 2
      [] v = "num:1772355600000" -> 3
      [] v = "2024-01-01T00:00:00.000Z" -> 4
      [] v = "2025-06-15T12:30:00.000Z" -> 5
      [] v = "2026-03-01T09:00:00.000Z" -> 6
      [] OTHER -> 7

(* The orders ORDER BY createdAt DESC may return the rows in (rows with     *)
(* equal keys come in an order the engine chooses).                         *)
DescOrders(t) ==
    {p \in [RowIdx(t) -> RowIdx(t)] :
        /\ \A i, j \in RowIdx(t) : i # j => p[i] # p[j]
        /\ \A i, j \in RowIdx(t) :
              i < j => SortRank(t[p[i]].createdAt) >= SortRank(t[p[j]].createdAt)}

(* Lines 210-213: the lists SELECT * FROM users ORDER BY createdAt DESC,   *)
(* mapped through rowToUser, may resolve with.                              *)
GetAllUsersResults(t) ==
    {[i \in RowIdx(t) |-> RowToUser(t[p[i]])] : p \in DescOrders(t)}

(* Lines 208-214: getAllUsers. *)
GetAllUsers ==
    /\ CanRun
    /\ LET out == IF ~HandleUsable THEN "sqlError" ELSE "ok"
       IN \E list \in GetAllUsersResults(table) :
            last' = [NoLast EXCEPT !.op = "getAllUsers",
                                   !.out = out,
                                   !.list = IF out = "ok" THEN list ELSE <<>>]
    /\ table' = Selected(table)
    /\ Finish

(* ------------------------------ behaviours ----------------------------- *)
Next ==
    \/ Call
    \/ \E a \in AttemptIdx : InitDir(a)
    \/ \E a \in AttemptIdx : InitImport(a)
    \/ \E a \in AttemptIdx : InitOpen(a)
    \/ \E a \in AttemptIdx : InitCreate(a)
    \/ \E a \in AttemptIdx : InitAlter(a)
    \/ \E a \in AttemptIdx : InitErrorThrown(a)
    \/ Close
    \/ \E user \in Users : AddUser(user)
    \/ \E s \in FindUserQueries : FindUser(s)
    \/ \E id \in Ids : FindUserById(id)
    \/ \E t \in Tokens : FindUserByVerificationToken(t)
    \/ \E id \in Ids, u \in UpdateInputs : UpdateUser(id, u)
    \/ \E e \in Emails : EmailExists(e)
    \/ GetAllUsers
    \/ ClearAllUsers

Spec == Init /\ [][Next]_vars

(* ------------------------- concurrent signups -------------------------- *)
(* Two callers of the store sign up at the same time on an operational      *)
(* store: each awaits emailExists(e), then awaits addUser(u) with that      *)
(* email.  A statement runs whole; the callers interleave at their awaits.  *)
(* A caller is named by the id of the account it creates.                   *)
SignupCallers == Ids

(* An account created before, by somebody else. *)
EarlierUser(e) ==
    LET u == CHOOSE x \in Users : x.id = "u1" /\ x.universityEmail = e
    IN [u EXCEPT !.id = "u0"]

(* The attempt record of a _doInitialize that created the table and went   *)
(* through the four ALTERs. *)
FulfilledAttempt ==
    [NewAttempt EXCEPT !.pc = "fulfilled", !.k = Len(MigCols),
                       !.seen = {"dup"}, !.waiters = 0]

SignupInit ==
    /\ initialized = TRUE
    /\ initPromise = 1
    /\ db = "open"
    /\ attempts = <<FulfilledAttempt>>
    /\ columns = BaseCols \cup MigColSet
    /\ table \in {<<>>} \cup {<<InsertRow(EarlierUser(e))>> : e \in Emails}
    /\ last = NoLast
    /\ nOps = 0
    /\ crashed = FALSE
    /\ \E us \in [SignupCallers -> Users] :
          /\ \A c \in SignupCallers : us[c].id = c
          /\ signup = [c \in SignupCallers |->
                         [pc |-> "check", user |-> us[c], exists |-> FALSE,
                          out |-> "none"]]
    /\ PageUnmounted

(* Lines 197-206: the caller's emailExists(e) completes. *)
SignupCheck(c) ==
    /\ signup[c].pc = "check"
    /\ signup' = [signup EXCEPT
                     ![c].pc = "add",
                     ![c].exists = EmailExistsResult(table, signup[c].user.universityEmail)]
    /\ UNCHANGED <<storeVars, pageVars>>

(* Lines 117-136: the caller's addUser(u) completes. *)
SignupAdd(c) ==
    /\ signup[c].pc = "add"
    /\ LET t2 == Inserted(table, InsertRow(signup[c].user))
           out == IF ~ConstraintsOk(t2) THEN "constraint" ELSE "ok"
       IN /\ table' = IF out = "ok" THEN t2 ELSE table
          /\ signup' = [signup EXCEPT ![c].pc = "done", ![c].out = out]
    /\ UNCHANGED <<initialized, initPromise, db, attempts, columns, last,
                   nOps, crashed, pageVars>>

SignupNext ==
    \/ \E c \in SignupCallers : SignupCheck(c)
    \/ \E c \in SignupCallers : SignupAdd(c)

SignupSpec == SignupInit /\ [][SignupNext]_vars

(* --------------------------- the Profile page -------------------------- *)
(* A ProfileData is modelled by two of its fields, fullName (which the      *)
(* load takes from the signup data) and aboutMe; every field is edited      *)
(* the same way.                                                            *)
(* JSON.stringify of a ProfileData. *)
StringifyProfile(p) ==
    "{\"fullName\":\"" \o p.fullName \o "\",\"aboutMe\":\"" \o p.aboutMe \o "\"}"

(* What the user types into a field. *)
TypedNames == {"Bo", ""}
TypedAbouts == {"Trekking"}

(* The texts found in the storage items when the page is first visited:     *)
(* written by the sign-in and signup pages, by an earlier visit of this    *)
(* page, or damaged.                                                        *)
NotJSON == "{not json"
UserDatas == {"{\"fullName\":\"Ann\"}", "{}", NotJSON}
SignupDatas == {"{\"fullName\":\"Zed\"}", NotJSON}
EarlierProfile == [fullName |-> "Ann", aboutMe |-> "Painting"]

(* The profiles JSON.parse can give back. *)
Profiles ==
    [fullName : {defaultProfileData.fullName, "Ann", "Zed"} \cup TypedNames,
     aboutMe : {defaultProfileData.aboutMe, "Painting"} \cup TypedAbouts]

(* JSON.parse of a stored text does not throw. *)
ParsesOk(s) ==
    \/ s \in (UserDatas \cup SignupDatas) \ {NotJSON}
    \/ \E p \in Profiles : StringifyProfile(p) = s

(* JSON.parse(s).fullName for a signup or user data text. *)
ParsedFullName(s) ==
    CASE s = "{\"fullName\":\"Ann\"}" -> "Ann"
      [] s = "{\"fullName\":\"Zed\"}" -> "Zed"
      [] OTHER -> Undefined

(* JSON.parse of a stored profile text. *)
ParseProfile(s) == CHOOSE p \in Profiles : StringifyProfile(p) = s

(* A storage item is there and not the empty text (the tests !x, x || y). *)
ItemTruthy(v) == v \notin {NoItem, ""}

(* Lines 94-98, 133-137: {...defaultProfileData, fullName: d.fullName ||    *)
(* defaultProfileData.fullName}. *)
InitialFromSignup(s) ==
    [defaultProfileData EXCEPT
        !.fullName = IF Truthy(ParsedFullName(s)) THEN ParsedFullName(s) ELSE @]

(* Lines 66-151: what checkAuth decides from the storage: stay with an      *)
(* initial profile, or go to "/".                                           *)
CheckAuthResult(ls) ==
    LET token == ls["authToken"]
        storedUserData == ls["userData"]
        tempSignupData == IF ItemTruthy(ls["tempSignupData"])
                          THEN ls["tempSignupData"] ELSE ls["signupFormData"]
        savedProfile == ls["profileData"]
    IN IF ~ItemTruthy(token) \/ ~ItemTruthy(storedUserData)
       THEN IF ItemTruthy(tempSignupData) /\ ParsesOk(tempSignupData)
            THEN [stay |-> TRUE, initial |-> InitialFromSignup(tempSignupData)]
            ELSE [stay |-> FALSE, initial |-> defaultProfileData]
       ELSE IF ~ParsesOk(storedUserData)
            THEN [stay |-> FALSE, initial |-> defaultProfileData]
            ELSE IF ItemTruthy(savedProfile)
            THEN [stay |-> TRUE,
                  initial |-> IF ParsesOk(savedProfile) THEN ParseProfile(savedProfile)
                              ELSE defaultProfileData]
            ELSE [stay |-> TRUE, initial |-> InitialFromSignup(storedUserData)]

(* The store is not touched by the page. *)
StoreUnused ==
    /\ initialized = FALSE
    /\ initPromise = 0
    /\ db = "undefined"
    /\ attempts = <<>>
    /\ columns = {}
    /\ table = <<>>
    /\ last = NoLast
    /\ nOps = 0
    /\ crashed = FALSE
    /\ signup = NoSignup

(* The browser is on another page, signed out, with what earlier visits    *)
(* left in the storage.                                                     *)
PageInit ==
    /\ StoreUnused
    /\ isEditing = FALSE
    /\ profileData = defaultProfileData
    /\ tempData = defaultProfileData
    /\ location = "/"
    /\ event = "none"
    /\ \E saved \in {NoItem, NotJSON, StringifyProfile(EarlierProfile)},
          temp \in {NoItem} \cup SignupDatas,
          form \in {NoItem} \cup (SignupDatas \ {NotJSON}) :
          localStorage = [k \in StorageKeys |->
                             CASE k = "profileData" -> saved
                               [] k = "tempSignupData" -> temp
                               [] k = "signupFormData" -> form
                               [] OTHER -> NoItem]

(* The sign-in page stores the session items that checkAuth reads (lines    *)
(* 68-69).                                                                  *)
SignIn ==
    /\ location # "/profile"
    /\ \E u \in UserDatas :
          localStorage' = [localStorage EXCEPT !["authToken"] = "token",
                                               !["userData"] = u]
    /\ event' = "signIn"
    /\ UNCHANGED <<storeVars, signup, isEditing, profileData, tempData, location>>

(* Mutation: the load sets the draft to the default profile. *)
LoadedDraftDefault(initial) == defaultProfileData

(* Lines 102, 146: setTempData(initialProfileData) *)
LoadedDraft(initial) == initial

(* Lines 59-154: the page is opened: the component mounts with its initial  *)
(* state and its effect runs checkAuth, which has no await.                 *)
CheckAuth ==
    /\ location # "/profile"
    /\ LET r == CheckAuthResult(localStorage)
       IN /\ location' = IF r.stay THEN "/profile" ELSE "/"
          /\ profileData' = r.initial
          /\ tempData' = IF r.stay THEN LoadedDraft(r.initial) ELSE r.initial
    /\ isEditing' = FALSE
    /\ event' = "checkAuth"
    /\ UNCHANGED <<storeVars, signup, localStorage>>

(* Lines 289, 572: the Edit buttons, setIsEditing(true). *)
EditClick ==
    /\ location = "/profile"
    /\ isEditing' = TRUE
    /\ event' = "edit"
    /\ UNCHANGED <<storeVars, signup, profileData, tempData, localStorage, location>>

(* Lines 394-1143: the inputs, shown only while editing, whose onChange is  *)
(* setTempData((prev) => ({...prev, field: value})).                        *)
Change(field, value) ==
    /\ location = "/profile"
    /\ isEditing
    /\ tempData' = [tempData EXCEPT ![field] = value]
    /\ event' = "change"
    /\ UNCHANGED <<storeVars, signup, isEditing, profileData, localStorage, location>>

(* Mutation: Save stores the committed profile, not the draft. *)
SavedItemCommitted(committed, draft) == StringifyProfile(committed)

(* Line 158: JSON.stringify(tempData) *)
SavedItem(committed, draft) == StringifyProfile(draft)

(* Lines 156-160: handleSave (the Save button is shown only while editing). *)
HandleSave ==
    /\ location = "/profile"
    /\ isEditing
    /\ profileData' = tempData
    /\ localStorage' = [localStorage EXCEPT
                           !["profileData"] = SavedItem(profileData, tempData)]
    /\ isEditing' = FALSE
    /\ event' = "handleSave"
    /\ UNCHANGED <<storeVars, signup, tempData, location>>

(* Mutation: Cancel keeps the draft. *)
CancelledDraftKept(committed, draft) == draft

(* Line 163: setTempData(profileData) *)
CancelledDraft(committed, draft) == committed

(* Lines 162-165: handleCancel (shown only while editing). *)
HandleCancel ==
    /\ location = "/profile"
    /\ isEditing
    /\ tempData' = CancelledDraft(profileData, tempData)
    /\ isEditing' = FALSE
    /\ event' = "handleCancel"
    /\ UNCHANGED <<storeVars, signup, profileData, localStorage, location>>

(* The component is unmounted: its state is gone. *)
Unmounted ==
    /\ isEditing' = FALSE
    /\ profileData' = defaultProfileData
    /\ tempData' = defaultProfileData

(* Mutation: logout empties the whole storage. *)
LoggedOutCleared(ls) == [k \in StorageKeys |-> NoItem]

(* Lines 168-169: removeItem("authToken"), removeItem("userData") *)
LoggedOut(ls) == [ls EXCEPT !["authToken"] = NoItem, !["userData"] = NoItem]

(* Lines 167-171: handleLogout. *)
HandleLogout ==
    /\ location = "/profile"
    /\ localStorage' = LoggedOut(localStorage)
    /\ location' = "/"
    /\ Unmounted
    /\ event' = "handleLogout"
    /\ UNCHANGED <<storeVars, signup>>

(* Line 230: the menu icon, navigate("/dashboard"). *)
GoToDashboard ==
    /\ location = "/profile"
    /\ location' = "/dashboard"
    /\ Unmounted
    /\ event' = "dashboard"
    /\ UNCHANGED <<storeVars, signup, localStorage>>

PageNext ==
    \/ SignIn
    \/ CheckAuth
    \/ EditClick
    \/ \E v \in TypedNames : Change("fullName", v)
    \/ \E v \in TypedAbouts : Change("aboutMe", v)
    \/ HandleSave
    \/ HandleCancel
    \/ HandleLogout
    \/ GoToDashboard

PageSpec == PageInit /\ [][PageNext]_vars

(* ------------------------------- claims -------------------------------- *)
AddStep == last'.op = "addUser" /\ nOps' = nOps + 1
UpdateStep == last'.op = "updateUser" /\ nOps' = nOps + 1
Operational == HandleUsable /\ Keys \subseteq columns

(* C1: however many operations are invoked before initialization completes, *)
(* _doInitialize is started at most once, and every suspended operation     *)
(* waits on the promise of that one attempt, the one initPromise holds.     *)
C1_SingleInitialization ==
    /\ Len(attempts) <= 1
    /\ \A a \in AttemptIdx : attempts[a].waiters > 0 => a = initPromise

C1_Witness ==
    /\ Len(attempts) = 1
    /\ attempts[1].waiters >= 2
    /\ attempts[1].pc \notin {"fulfilled", "rejected", "hung"}

(* C2: once a step of an initialization attempt has failed (directory,      *)
(* import, open, table creation, or an additive column operation failing    *)
(* for a reason other than the column existing), the store is never         *)
(* initialized and no operation executes a statement.                       *)
C2_FailedInitStopsEveryOperation ==
    \A a \in AttemptIdx :
        (attempts[a].err # "none" \/ "other" \in attempts[a].seen)
            => (~initialized /\ nOps = 0 /\ last.op \in {"none", "any"})

(* C3: an additive column operation that fails for a reason other than the *)
(* column existing makes the initialization attempt fail.                   *)
C3_OtherSchemaFailureIsFatal ==
    \A a \in AttemptIdx :
        "other" \in attempts[a].seen => attempts[a].pc = "rejected"

(* C4: an additive column operation on a column the table already has      *)
(* never fails the attempt: the next additive operation is attempted, and   *)
(* after the last one the attempt is fulfilled and initialized is true.     *)
C4_DuplicateColumnIsSkipped ==
    [][\A a \in AttemptIdx :
          ( /\ attempts[a].pc = "alter"
            /\ db # "closed"
            /\ MigCols[attempts[a].k] \in columns
            /\ (attempts'[a].k # attempts[a].k \/ attempts'[a].pc # "alter") )
          => /\ columns' = columns
             /\ "dup" \in attempts'[a].seen
             /\ IF attempts[a].k < Len(MigCols)
                THEN /\ attempts'[a].pc = "alter"
                     /\ attempts'[a].k = attempts[a].k + 1
                ELSE /\ attempts'[a].pc = "fulfilled"
                     /\ initialized']_vars

C4_Witness ==
    \E a \in AttemptIdx :
        /\ attempts[a].pc = "fulfilled"
        /\ attempts[a].seen = {"ok", "dup"}
        /\ initialized
        /\ MigColSet \subseteq columns

(* C5: no two stored records have the same universityEmail. *)
C5_UniqueEmail == UniqueEmailOk(table)

C5_Witness ==
    /\ Len(table) = 2
    /\ last.op = "updateUser"
    /\ last.out = "constraint"
    /\ "universityEmail" \in last.fields

(* C6: on an operational store, addUser with a universityEmail that a       *)
(* stored record has fails with a constraint error and leaves the table     *)
(* unchanged; after a successful addUser with email e, emailExists(e) is    *)
(* true.                                                                    *)
C6_DuplicateEmailRejected ==
    [][AddStep =>
        LET e == last'.user.universityEmail IN
        /\ CountEmail(table, e) > 0 =>
              /\ table' = table
              /\ last'.out # "ok"
              /\ Operational => last'.out = "constraint"
        /\ last'.out = "ok" => EmailExistsResult(table', e)]_vars

C6_Witness ==
    /\ last.op = "addUser"
    /\ last.out = "constraint"
    /\ \E i \in RowIdx(table) :
          /\ table[i].universityEmail = last.user.universityEmail
          /\ table[i].id # last.user.id

(* C7: no store operation changes the id of a stored record. *)
C7_IdImmutable ==
    [][\A i \in RowIdx(table) :
          i \in RowIdx(table') => table'[i].id = table[i].id]_vars

(* C8: a successful addUser(u) followed by findUserById(u.id) returns a     *)
(* record equal to u in every field, absent fields read back as absent.     *)
C8_AddThenFindRoundTrip ==
    [][( /\ last.op = "addUser" /\ last.out = "ok"
         /\ last'.op = "findUserById" /\ nOps' = nOps + 1
         /\ last'.out = "ok"
         /\ last'.id = last.user.id )
       => (last'.found /\ last'.ret = last.user)]_vars

(* C9: updateUser(id, partial) leaves every record with another id as it    *)
(* was, and on the record with that id every field omitted from partial.    *)
C9_UpdateFrame ==
    [][UpdateStep =>
        /\ Len(table') = Len(table)
        /\ \A i \in RowIdx(table) :
              /\ table[i].id # last'.id => table'[i] = table[i]
              /\ \A k \in Keys \ DOMAIN last'.updates :
                    table'[i][k] = table[i][k]]_vars

C9_Witness ==
    /\ last.op = "updateUser"
    /\ last.out = "ok"
    /\ DOMAIN last.updates = {"isEmailVerified"}
    /\ Len(table) = 2
    /\ \E i \in RowIdx(table) :
          /\ table[i].id = last.id
          /\ table[i].isEmailVerified = Int1
          /\ table[i].verificationToken = "tok1"

(* C10: a field of the partial update set to undefined is not written, and  *)
(* its stored value stays what it was, collegeData and                      *)
(* verificationTokenExpiry included.                                        *)
C10_UndefinedFieldSkipped ==
    [][UpdateStep =>
        \A k \in DOMAIN last'.updates :
            last'.updates[k] = Undefined =>
                /\ k \notin last'.fields
                /\ \A i \in RowIdx(table) : table'[i][k] = table[i][k]]_vars

C10_Witness ==
    /\ last.op = "updateUser"
    /\ \E k \in {"collegeData", "verificationTokenExpiry"} :
          /\ k \in DOMAIN last.updates
          /\ last.updates[k] = Undefined
          /\ \E i \in RowIdx(table) :
                table[i].id = last.id /\ table[i][k] # Null

(* Two names are equal ignoring case when their case foldings are equal. *)
CaseFold(s) ==
    CASE s \in {"Ann", "ANN", "ann"} -> "ann"
      [] s \in {"Zo<U+00EB>", "ZO<U+00CB>", "zo<U+00EB>"} -> "zo<U+00EB>"
      [] OTHER -> s

SatisfiesFindUser(r, s) ==
    r.universityEmail = s \/ CaseFold(r.fullName) = CaseFold(s)

(* C11: on an operational store findUser(s) returns a record if and only   *)
(* if some stored record has universityEmail equal to s or fullName equal  *)
(* to s ignoring case, and the record returned is such a record.            *)
C11_FindUserIffMatch ==
    (last.op = "findUser" /\ last.out = "ok") =>
        /\ last.found <=> \E i \in RowIdx(table) : SatisfiesFindUser(table[i], last.id)
        /\ last.found => SatisfiesFindUser(last.ret, last.id)

(* The three lookups. *)
Lookups == {"findUser", "findUserById", "findUserByVerificationToken"}

(* The rows a lookup's key selects. *)
LookupHits(op, key) ==
    {i \in RowIdx(table) :
        CASE op = "findUser" -> FindUserMatches(table[i], key)
          [] op = "findUserById" -> table[i].id = key
          [] OTHER -> TokenMatches(table[i], key)}

(* C12: on an operational store a lookup whose key matches no stored       *)
(* record completes without error and returns the absent result.            *)
C12_LookupMissIsAbsent ==
    (/\ last.op \in Lookups
     /\ Operational
     /\ LookupHits(last.op, last.id) = {}) =>
        /\ last.out = "ok"
        /\ ~last.found
        /\ last.ret = NoUser

C12_Witness ==
    /\ last.op = "findUserByVerificationToken"
    /\ Operational
    /\ Len(table) > 0
    /\ LookupHits(last.op, last.id) = {}
    /\ last.out = "ok"
    /\ ~last.found

(* The instant a Date stands for, as a rank. *)
DateMs(d) ==
    CASE d = D1 -> 1
      [] d = D2 -> 2
      [] d = D3 -> 3
      [] OTHER -> 0

(* C13: getAllUsers returns exactly the stored records, each once, ordered *)
(* by createdAt from the most recent to the oldest.                         *)
C13_GetAllUsersNewestFirst ==
    \A list \in GetAllUsersResults(table) :
        /\ Len(list) = Len(table)
        /\ \E p \in [RowIdx(table) -> RowIdx(table)] :
              /\ \A i, j \in RowIdx(table) : i # j => p[i] # p[j]
              /\ \A i \in RowIdx(table) : list[i] = RowToUser(table[p[i]])
        /\ \A i, j \in RowIdx(table) :
              i < j => DateMs(list[i].createdAt) >= DateMs(list[j].createdAt)

(* A data operation completes in this step. *)
OpStep == nOps' = nOps + 1

(* C14: a clearAllUsers that completes leaves no record; the store then    *)
(* stays empty until an addUser succeeds, and while it is empty            *)
(* getAllUsers returns the empty list, emailExists returns false and every *)
(* lookup returns not-found.                                                *)
C14_ClearEmptiesStore ==
    [][/\ (OpStep /\ last'.op = "clearAllUsers" /\ last'.out = "ok") => table' = <<>>
       /\ (table = <<>> /\ ~(AddStep /\ last'.out = "ok")) => table' = <<>>
       /\ (table = <<>> /\ OpStep /\ last'.out = "ok") =>
             /\ last'.op = "getAllUsers" => last'.list = <<>>
             /\ last'.op = "emailExists" => ~last'.flag
             /\ last'.op \in Lookups => ~last'.found /\ last'.ret = NoUser]_vars

C14_Witness ==
    /\ last.op = "clearAllUsers"
    /\ last.out = "ok"
    /\ nOps = MaxOps
    /\ table = <<>>

(* A call of close() completes in this step. *)
CloseStep == last'.op = "close" /\ last' # last

(* C15: close() on a store whose connection was never opened raises no     *)
(* error, changes no field of the store and starts no initialization.       *)
C15_CloseBeforeOpenIsNoOp ==
    [][(CloseStep /\ db = "undefined") =>
          /\ last'.out = "ok"
          /\ UNCHANGED <<initialized, initPromise, db, attempts, columns,
                         table, nOps, crashed>>]_vars

C15_Witness ==
    /\ last.op = "close"
    /\ last.out = "ok"
    /\ attempts = <<>>
    /\ db = "undefined"
    /\ initPromise = 0
    /\ ~initialized

(* C16: constructing the store opens nothing and starts no initialization; *)
(* every data operation runs its body only once an initialization attempt  *)
(* has completed and set initialized.                                       *)
C16_InitializationPrecedesUse ==
    /\ [](attempts = <<>> =>
             db = "undefined" /\ ~initialized /\ initPromise = 0 /\ nOps = 0)
    /\ [][OpStep =>
             /\ initialized
             /\ \E a \in AttemptIdx : attempts[a].pc = "fulfilled"]_vars

C16_Witness ==
    /\ nOps = 1
    /\ last.op = "getAllUsers"
    /\ last.out = "ok"
    /\ initialized
    /\ Len(attempts) = 1
    /\ attempts[1].pc = "fulfilled"

(* C17: on an operational store, addUser with an id that a stored record   *)
(* has fails with a constraint error and leaves the table unchanged; the    *)
(* ids of the stored records are pairwise different in every state.         *)
C17_DuplicateIdRejected ==
    [][/\ PrimaryKeyOk(table')
       /\ AddStep =>
             ((\E i \in RowIdx(table) : table[i].id = last'.user.id) =>
                 /\ table' = table
                 /\ last'.out # "ok"
                 /\ Operational => last'.out = "constraint")]_vars

C17_Witness ==
    /\ last.op = "addUser"
    /\ last.out = "constraint"
    /\ PrimaryKeyOk(table)
    /\ \E i \in RowIdx(table) :
          /\ table[i].id = last.user.id
          /\ table[i].universityEmail # last.user.universityEmail

(* C18: an updateUser whose partial update has no applicable field (it is  *)
(* empty or all its entries are undefined) runs no UPDATE, returns without  *)
(* error and leaves the table unchanged, whatever the state of the handle.  *)
C18_EmptyUpdateIsNoOp ==
    [][(UpdateStep /\ \A k \in DOMAIN last'.updates : last'.updates[k] = Undefined) =>
          /\ last'.out = "noop"
          /\ last'.fields = {}
          /\ table' = table]_vars

C18_Witness ==
    /\ last.op = "updateUser"
    /\ last.out = "noop"
    /\ DOMAIN last.updates # {}
    /\ \A k \in DOMAIN last.updates : last.updates[k] = Undefined
    /\ \E i \in RowIdx(table) : table[i].id = last.id

(* C19: on an operational store, an updateUser with at least one           *)
(* applicable field and an id that no stored record has completes without   *)
(* error, as a successful update does, and leaves the table unchanged.      *)
C19_UpdateOfMissingIdSucceeds ==
    [][(/\ UpdateStep
        /\ Operational
        /\ last'.fields # {}
        /\ \A i \in RowIdx(table) : table[i].id # last'.id) =>
          /\ last'.out = "ok"
          /\ table' = table]_vars

C19_Witness ==
    /\ last.op = "updateUser"
    /\ last.out = "ok"
    /\ last.fields # {}
    /\ "id" \notin last.fields
    /\ Len(table) > 0
    /\ \A i \in RowIdx(table) : table[i].id # last.id

(* C20: findUserByVerificationToken(t) returns a record exactly when a     *)
(* stored record has verificationToken t, and returns such a record,        *)
(* whatever its verificationTokenExpiry and isEmailVerified are.            *)
C20_TokenLookupIgnoresExpiry ==
    (last.op = "findUserByVerificationToken" /\ last.out = "ok") =>
        /\ last.found <=> \E i \in RowIdx(table) : table[i].verificationToken = last.id
        /\ last.found =>
              /\ last.ret.verificationToken = last.id
              /\ \E i \in RowIdx(table) :
                    /\ table[i].verificationToken = last.id
                    /\ last.ret = RowToUser(table[i])

C20_Witness ==
    /\ last.op = "findUserByVerificationToken"
    /\ last.found
    /\ last.ret.verificationToken = last.id
    /\ last.ret.verificationTokenExpiry = Undefined
    /\ last.ret.isEmailVerified = JsTrue

(* C21: once the store is initialized and its handle closed, initialized   *)
(* stays true, the memoized promise is kept, no initialization attempt is   *)
(* started and the handle stays closed, whatever is called afterwards.      *)
C21_NoReopenAfterClose ==
    [][(initialized /\ db = "closed") =>
          /\ initialized'
          /\ initPromise' = initPromise
          /\ Len(attempts') = Len(attempts)
          /\ db' = "closed"]_vars

C21_Witness ==
    /\ initialized
    /\ db = "closed"
    /\ Len(attempts) = 1
    /\ last.op = "getAllUsers"
    /\ last.out = "sqlError"
    /\ nOps = 2

(* C22: a step that is not a completed clearAllUsers never lowers the      *)
(* number of stored records, whether its operation succeeds or fails.       *)
C22_OnlyClearRemovesRows ==
    [][~(OpStep /\ last'.op = "clearAllUsers") => Len(table') >= Len(table)]_vars

C22_Witness ==
    /\ Len(table) = 2
    /\ last.op = "updateUser"
    /\ last.out = "constraint"
    /\ nOps = 3

(* What decoding owes for a stored row: no error, a strict boolean that    *)
(* tells whether the stored isEmailVerified is truthy, and collegeData      *)
(* absent for an empty stored value, else the structure whose encoding is   *)
(* stored.                                                                  *)
DecodedWell(row, user) ==
    /\ user.collegeData # "SyntaxError"
    /\ user.isEmailVerified \in {JsTrue, JsFalse}
    /\ user.isEmailVerified = JsTrue <=> Truthy(row.isEmailVerified)
    /\ IF row.collegeData \in {Null, ""}
       THEN user.collegeData = Undefined
       ELSE /\ user.collegeData \in CollegeDatas
            /\ JSONStringify(user.collegeData) = row.collegeData

(* C23: every stored row decodes without error, and every record a read    *)
(* path returned is the decoding of a stored row, with isEmailVerified a    *)
(* strict boolean and collegeData absent or the decoded structure.          *)
C23_DecodingNeverFails ==
    /\ \A i \in RowIdx(table) : DecodedWell(table[i], RowToUser(table[i]))
    /\ (last.op \in Lookups /\ last.found) =>
          \E i \in RowIdx(table) : /\ last.ret = RowToUser(table[i])
                                   /\ DecodedWell(table[i], last.ret)
    /\ (last.op = "getAllUsers" /\ last.out = "ok") =>
          \A n \in 1..Len(last.list) :
             \E i \in RowIdx(table) : /\ last.list[n] = RowToUser(table[i])
                                      /\ DecodedWell(table[i], last.list[n])

C23_Witness ==
    /\ last.op = "findUserById"
    /\ last.found
    /\ last.ret.collegeData = CD2
    /\ last.ret.isEmailVerified = JsTrue
    /\ \E i \in RowIdx(table) : /\ table[i].id = last.id
                                /\ table[i].collegeData = JSONStringify(CD2)
                                /\ table[i].isEmailVerified = Int1

(* The read operations. *)
Reads == Lookups \cup {"emailExists", "getAllUsers"}

(* C25: a read operation leaves the table as it was: the same rows in the  *)
(* same order with the same values, found or not, completed or failed.      *)
C25_ReadsLeaveTableUnchanged ==
    [][(OpStep /\ last'.op \in Reads) => table' = table]_vars

C25_Witness ==
    /\ last.op = "emailExists"
    /\ last.out = "ok"
    /\ last.flag
    /\ Len(table) = 2
    /\ \E i \in RowIdx(table) : table[i].verificationToken = "tok1"

(* Two different callers signing up with the same email. *)
SameEmail(c, d) ==
    c # d /\ signup[c].user.universityEmail = signup[d].user.universityEmail

(* C24: of two callers that run emailExists(e) then addUser with the same  *)
(* email e, at most one addUser succeeds and every other one fails with a   *)
(* constraint error; when both are done the table has exactly one record    *)
(* with email e.                                                            *)
C24_RacingSignupsNeverDuplicate ==
    \A c, d \in SignupCallers : SameEmail(c, d) =>
        /\ ~(signup[c].out = "ok" /\ signup[d].out = "ok")
        /\ signup[c].out \in {"none", "ok", "constraint"}
        /\ (signup[c].pc = "done" /\ signup[d].pc = "done") =>
              CountEmail(table, signup[c].user.universityEmail) = 1

C24_Witness ==
    \E c, d \in SignupCallers :
        /\ SameEmail(c, d)
        /\ ~signup[c].exists /\ ~signup[d].exists
        /\ signup[c].out = "ok"
        /\ signup[d].out = "constraint"
        /\ CountEmail(table, signup[c].user.universityEmail) = 1

(* The Profile page is shown before and after the step. *)
OnPage == location = "/profile" /\ location' = "/profile"

(* C26: while the page is shown and editing mode is off, the draft equals  *)
(* the committed profile; a step on the page that changes the draft starts  *)
(* in editing mode.                                                         *)
C26_DraftEqualsCommittedWhenNotEditing ==
    /\ []((location = "/profile" /\ ~isEditing) => tempData = profileData)
    /\ [][(OnPage /\ tempData' # tempData) => isEditing]_vars

C26_Witness ==
    /\ location = "/profile"
    /\ ~isEditing
    /\ event = "handleSave"
    /\ tempData = profileData
    /\ profileData.fullName = "Bo"
    /\ profileData.aboutMe = "Trekking"

C28_SaveCommitsDraft ==
    /\ [][(OnPage /\ event' = "handleSave" /\ isEditing) =>
             /\ profileData' = tempData
             /\ tempData' = tempData
             /\ localStorage'["profileData"] = StringifyProfile(tempData)
             /\ ParseProfile(localStorage'["profileData"]) = tempData
             /\ \A k \in StorageKeys \ {"profileData"} :
                   localStorage'[k] = localStorage[k]
             /\ ~isEditing']_vars
    /\ [][localStorage'["profileData"] # localStorage["profileData"] =>
             event' = "handleSave" /\ isEditing]_vars

C28_Witness ==
    /\ location = "/profile"
    /\ event = "handleSave"
    /\ ~isEditing
    /\ profileData.fullName = ""
    /\ localStorage["profileData"] = StringifyProfile(profileData)
    /\ localStorage["profileData"] # StringifyProfile(EarlierProfile)

(* C29: Logout removes the authToken and userData items, goes to "/" and   *)
(* leaves every other item as it is; a visit with both session items and a  *)
(* readable profileData item shows the profile decoded from that item.      *)
C29_LogoutKeepsSavedProfile ==
    /\ [][(location = "/profile" /\ event' = "handleLogout") =>
             /\ localStorage'["authToken"] = NoItem
             /\ localStorage'["userData"] = NoItem
             /\ \A k \in StorageKeys \ {"authToken", "userData"} :
                   localStorage'[k] = localStorage[k]
             /\ location' = "/"]_vars
    /\ [][(/\ location # "/profile"
           /\ event' = "checkAuth"
           /\ ItemTruthy(localStorage["authToken"])
           /\ ParsesOk(localStorage["userData"])
           /\ ParsesOk(localStorage["profileData"])) =>
             /\ location' = "/profile"
             /\ profileData' = ParseProfile(localStorage["profileData"])
             /\ tempData' = profileData']_vars

C29_Witness ==
    /\ event = "handleLogout"
    /\ location = "/"
    /\ localStorage["authToken"] = NoItem
    /\ localStorage["userData"] = NoItem
    /\ localStorage["profileData"] =
          StringifyProfile([fullName |-> "Bo", aboutMe |-> "Trekking"])

====
